---------------------------- MODULE Spec2Model ----------------------------
(***************************************************************************)
(* Model of the named-entity benchmark: the three-pass entity matcher and  *)
(* the statistics of process_and_analyze.py, and the occurrence extractor  *)
(* of get_entities.py.                                                     *)
(*                                                                         *)
(* Conventions.                                                            *)
(*  - A Python list of dicts is a sequence of records.  The working pools  *)
(*    unmatched_truth / unmatched_transcribed hold references to the       *)
(*    input dicts: a reference is the 1-based index of the dict in its     *)
(*    input list.  list.remove(x) compares by VALUE (dict ==) and removes  *)
(*    the first equal element: RemoveFirst does exactly that.              *)
(*  - Scores are floats in the source.  They are kept exact here, in       *)
(*    hundredths: a score of 82.5 is 8250, the threshold 50 is 5000.       *)
(*  - Rates (a / b) are kept exact as pairs <<a, b>>; the literal 0 the    *)
(*    source returns instead of dividing by zero is <<0, 1>>.              *)
(*  - fuzz.ratio, DMetaphone and jarowinkler_similarity are library        *)
(*    primitives.  fuzz.ratio is the table `ratio` (a state variable fixed *)
(*    at Init): either its real values on the strings of the model, or an  *)
(*    arbitrary table of integers in 0..100.                               *)
(***************************************************************************)
EXTENDS Integers, Sequences, FiniteSets

VARIABLES
    pc,                     \* control point of the running program
    ground_truth,           \* match_entities argument (reference timeline)
    transcribed,            \* match_entities argument (candidate timeline)
    position_tolerance,     \* match_entities argument
    ratio,                  \* the fuzz.ratio table in force
    matches,                \* list of [truth, transcribed, score]
    unmatched_truth,        \* pool of references into ground_truth
    unmatched_transcribed,  \* pool of references into transcribed
    pending,                \* the list a pass iterates over (a snapshot)
    i,                      \* position of the running loop in its list
    stats,                  \* result of generate_statistics
    truth_entities,         \* calculate_pnwer argument (direct call)
    transcribed_entities,   \* calculate_pnwer argument (direct call)
    data,                   \* entities of the service response
    entity_dict,            \* extract_named_entities result (insertion order)
    warnings,               \* entities a logging.warning was issued for
    occurrences             \* organize_entities_by_position result

vars == <<pc, ground_truth, transcribed, position_tolerance, ratio, matches,
          unmatched_truth, unmatched_transcribed, pending, i, stats,
          truth_entities, transcribed_entities, data, entity_dict,
          warnings, occurrences>>

matcherVars == <<ground_truth, transcribed, position_tolerance, ratio,
                 matches, unmatched_truth, unmatched_transcribed, pending,
                 i, stats>>
metricVars == <<truth_entities, transcribed_entities>>
extractVars == <<data, entity_dict, warnings, occurrences>>

----------------------------------------------------------------------------
(* Bounds of the model.                                                    *)

MaxRef == 2         \* longest reference timeline
MaxCand == 2        \* longest candidate timeline
MaxNouns == 2       \* longest list handed to calculate_pnwer directly
MaxEntities == 2    \* most entities in a service response

----------------------------------------------------------------------------
(* Generic helpers.                                                        *)

Abs(x) == IF x < 0 THEN -x ELSE x
Max(a, b) == IF a >= b THEN a ELSE b
Min(a, b) == IF a <= b THEN a ELSE b
Range(s) == {s[k] : k \in 1..Len(s)}
SeqsUpTo(S, n) == UNION {[1..m -> S] : m \in 0..n}
RemoveAt(s, k) == [j \in 1..(Len(s) - 1) |-> IF j < k THEN s[j] ELSE s[j + 1]]

RECURSIVE SumSeq(_)
SumSeq(s) == IF s = <<>> THEN 0 ELSE s[1] + SumSeq(Tail(s))

----------------------------------------------------------------------------
(* The strings of the model and the library primitives on them.            *)

Texts == {"Smith", "SMITH", "Schmidt"}
Types == {"NAME", "ORGANIZATION"}
SentenceA == "we met with Smith yesterday"
SentenceB == "we spoke with Smith on Monday"
Sentences == {SentenceA, SentenceB}

\* str.lower()
Lower(t) ==
    CASE t = "Smith" -> "smith"
      [] t = "SMITH" -> "smith"
      [] t = "Schmidt" -> "schmidt"
      [] OTHER -> t

\* DMetaphone()(text): the primary and the secondary code (case-blind)
DMetaphone(t) ==
    CASE Lower(t) = "smith" -> <<"SM0", "XMT">>
      [] Lower(t) = "schmidt" -> <<"XMT", "SMT">>
      [] OTHER -> <<"", "">>

LowerTexts == {Lower(t) : t \in Texts}
Codes == UNION {Range(DMetaphone(t)) : t \in Texts}
RatioDomain == (Sentences \X Sentences) \cup (LowerTexts \X LowerTexts)
                   \cup (Codes \X Codes)

\* fuzz.ratio on the strings of the model: round(100 * 2M / T)
FuzzRatio ==
    [p \in RatioDomain |->
        CASE p[1] = p[2] -> 100
          [] p \in Sentences \X Sentences -> 68
          [] p \in LowerTexts \X LowerTexts -> 67
          [] p \in {<<"SM0", "XMT">>, <<"XMT", "SM0">>} -> 33
          [] OTHER -> 67]

\* an arbitrary fuzz.ratio: s between different sentences, t between
\* different lower-cased texts, c between different phonetic codes
AnyRatio(s, t, c) ==
    [p \in RatioDomain |->
        CASE p[1] = p[2] -> 100
          [] p \in Sentences \X Sentences -> s
          [] p \in LowerTexts \X LowerTexts -> t
          [] OTHER -> c]

\* jarowinkler_similarity, in ten-thousandths
JaroWinkler(a, b) ==
    CASE a = b -> 10000
      [] {a, b} = {"Smith", "SMITH"} -> 5200
      [] {a, b} = {"Smith", "Schmidt"} -> 7364
      [] OTHER -> 5029

----------------------------------------------------------------------------
(* match_entities.                                                         *)

\* the working state of match_entities
MatchState(m, ut, uc) ==
    [matches |-> m, unmatched_truth |-> ut, unmatched_transcribed |-> uc]

\* mutants of RemoveFirst: every equal element removed; the head removed
RemoveAllEqual(pool, list_of, x) ==
    SelectSeq(pool, LAMBDA y : list_of[y] # list_of[x])
RemoveHead(pool, list_of, x) == RemoveAt(pool, 1)

\* list.remove(list_of[x]) on a pool of references: the first element of
\* the pool whose dict EQUALS the dict of x is removed
RemoveFirst(pool, list_of, x) ==
    LET hits == {k \in 1..Len(pool) : list_of[pool[k]] = list_of[x]}
        first == CHOOSE k \in hits : \A j \in hits : k <= j
    IN  RemoveAt(pool, first)

\* matches.append(match)
AddMatchFirst(ms, m) == <<m>> \o ms
AddMatch(ms, m) == Append(ms, m)

\* unmatched_transcribed[:] -- the copy a pass iterates over
Snapshot(pool) == pool

PositionDiff(te, ge) == Abs(te.position - ge.position)

sentence_similarity(te, ge) == ratio[<<te.sentence, ge.sentence>>]
text_similarity(te, ge) == ratio[<<Lower(te.text), Lower(ge.text)>>]
phonetic_similarity(te, ge) ==
    Max(ratio[<<DMetaphone(te.text)[1], DMetaphone(ge.text)[1]>>],
        ratio[<<DMetaphone(te.text)[2], DMetaphone(ge.text)[2]>>])
position_score(te, ge) == 100 - PositionDiff(te, ge) * 10

\* mutant of Pass1Accepts: a sentence similarity of 80 is enough
Pass1AcceptsFrom80(te, ge, tol) ==
    /\ Lower(te.text) = Lower(ge.text)
    /\ PositionDiff(te, ge) <= tol
    /\ sentence_similarity(te, ge) >= 80

\* first pass: the condition of lines 39-42
Pass1Accepts(te, ge, tol) ==
    /\ Lower(te.text) = Lower(ge.text)
    /\ PositionDiff(te, ge) <= tol
    /\ sentence_similarity(te, ge) > 80

\* mutant of Pass2Gate: no position gate
Pass2GateAnyPosition(te, ge, tol) == te.entity_type = ge.entity_type

\* second pass: the gate of lines 58-59 and the score of line 69
Pass2Gate(te, ge, tol) ==
    /\ PositionDiff(te, ge) <= tol
    /\ te.entity_type = ge.entity_type

Pass2Score(te, ge) ==
    50 * sentence_similarity(te, ge) + 30 * position_score(te, ge)
        + 15 * text_similarity(te, ge) + 5 * phonetic_similarity(te, ge)

\* third pass: the gate of line 90 and the score of line 99
Pass3Gate(te, ge, tol) == te.entity_type = ge.entity_type

Pass3Score(te, ge) ==
    60 * sentence_similarity(te, ge) + 30 * text_similarity(te, ge)
        + 10 * phonetic_similarity(te, ge)

Gate(pass, te, ge, tol) ==
    IF pass = 2 THEN Pass2Gate(te, ge, tol) ELSE Pass3Gate(te, ge, tol)
Score(pass, te, ge) ==
    IF pass = 2 THEN Pass2Score(te, ge) ELSE Pass3Score(te, ge)
\* mutant of Threshold: the second pass asks for more than 80 too
ThresholdAlways80(pass) == 8000
\* `best_score > 50` (line 75), `best_score > 80` (line 105)
Threshold(pass) == IF pass = 2 THEN 5000 ELSE 8000

\* mutant of Better: a later reference wins a tie
BetterOrEqual(score, best_score) == score >= best_score
\* `if score > best_score`
Better(score, best_score) == score > best_score

\* the inner loop of a first pass step: the first reference of the pool,
\* from place k on, that the candidate accepts; 0 when there is none
RECURSIVE FirstFit(_, _, _, _, _, _)
FirstFit(gt, tr, tol, pool, c, k) ==
    IF k > Len(pool) THEN 0
    ELSE IF Pass1Accepts(tr[c], gt[pool[k]], tol) THEN pool[k]
    ELSE FirstFit(gt, tr, tol, pool, c, k + 1)

\* the inner loop of a second or third pass step, from place k on with
\* best = [match, score]; match 0 is None
RECURSIVE BestFit(_, _, _, _, _, _, _, _)
BestFit(pass, gt, tr, tol, pool, c, k, best) ==
    IF k > Len(pool) THEN best
    ELSE LET ge == gt[pool[k]]
             score == Score(pass, tr[c], ge)
         IN  IF Gate(pass, tr[c], ge, tol) /\ Better(score, best.score)
             THEN BestFit(pass, gt, tr, tol, pool, c, k + 1,
                          [match |-> pool[k], score |-> score])
             ELSE BestFit(pass, gt, tr, tol, pool, c, k + 1, best)

\* one iteration of the first pass loop, for candidate c
Pass1Body(gt, tr, tol, st, c) ==
    LET r == FirstFit(gt, tr, tol, st.unmatched_truth, c, 1)
    IN  IF r = 0 THEN st
        ELSE MatchState(
                 AddMatch(st.matches,
                          [truth |-> r, transcribed |-> c, score |-> 10000]),
                 RemoveFirst(st.unmatched_truth, gt, r),
                 RemoveFirst(st.unmatched_transcribed, tr, c))

\* one iteration of the second (pass = 2) or third (pass = 3) pass loop
BestBody(pass, gt, tr, tol, st, c) ==
    LET best == BestFit(pass, gt, tr, tol, st.unmatched_truth, c, 1,
                        [match |-> 0, score |-> 0])
    IN  IF best.match # 0 /\ best.score > Threshold(pass)
        THEN MatchState(
                 AddMatch(st.matches,
                          [truth |-> best.match, transcribed |-> c,
                           score |-> best.score]),
                 RemoveFirst(st.unmatched_truth, gt, best.match),
                 RemoveFirst(st.unmatched_transcribed, tr, c))
        ELSE st

\* a whole loop over the list todo, from place k on
RECURSIVE RunPass(_, _, _, _, _, _, _)
RunPass(pass, gt, tr, tol, st, todo, k) ==
    IF k > Len(todo) THEN st
    ELSE RunPass(pass, gt, tr, tol,
                 IF pass = 1 THEN Pass1Body(gt, tr, tol, st, todo[k])
                 ELSE BestBody(pass, gt, tr, tol, st, todo[k]),
                 todo, k + 1)

\* match_entities as a function of its arguments
MatchEntities(gt, tr, tol) ==
    LET s0 == MatchState(<<>>, [k \in 1..Len(gt) |-> k],
                         [k \in 1..Len(tr) |-> k])
        s1 == RunPass(1, gt, tr, tol, s0, [k \in 1..Len(tr) |-> k], 1)
        s2 == RunPass(2, gt, tr, tol, s1,
                      Snapshot(s1.unmatched_transcribed), 1)
    IN  RunPass(3, gt, tr, tol, s2, Snapshot(s2.unmatched_transcribed), 1)


----------------------------------------------------------------------------
(* calculate_pner, calculate_pnwer, generate_statistics.                   *)

Zero == <<0, 1>>
Rate(a, b) == IF b > 0 THEN <<a, b>> ELSE Zero

\* zip(truth_entities, transcribed_entities): the places both lists have
Zipped(te, ce) == 1..Min(Len(te), Len(ce))

\* total_distance / len(truth_entities), distances in ten-thousandths
calculate_pner(te, ce) ==
    IF te = <<>> THEN Zero
    ELSE <<SumSeq([k \in Zipped(te, ce) |-> 10000 - JaroWinkler(te[k], ce[k])]),
           10000 * Len(te)>>

\* mutant of Substitutions: texts compared without case
SubstitutionsIgnoringCase(te, ce) ==
    Cardinality({k \in Zipped(te, ce) : Lower(te[k]) # Lower(ce[k])})
\* `sum(1 for truth, trans in zip(...) if truth != trans)`
Substitutions(te, ce) == Cardinality({k \in Zipped(te, ce) : te[k] # ce[k]})
Deletions(te, ce) == Max(0, Len(te) - Len(ce))
Insertions(te, ce) == Max(0, Len(ce) - Len(te))

calculate_pnwer(te, ce) ==
    IF te = <<>> THEN Zero
    ELSE <<Substitutions(te, ce) + Deletions(te, ce) + Insertions(te, ce),
           Len(te)>>

\* mutant of TotalEntities: the unmatched candidates left out
TotalWithoutCandidates(m, ut, uc) == Len(m) + Len(ut)
TotalEntities(m, ut, uc) == Len(m) + Len(ut) + Len(uc)

generate_statistics(gt, tr, m, ut, uc) ==
    LET total_entities == TotalEntities(m, ut, uc)
        match_scores == [k \in 1..Len(m) |-> m[k].score]
        truth_proper_nouns == [k \in 1..Len(m) |-> gt[m[k].truth].text]
        transcribed_proper_nouns ==
            [k \in 1..Len(m) |-> tr[m[k].transcribed].text]
    IN  [total_entities |-> total_entities,
         total_matches |-> Len(m),
         total_unmatched_truth |-> Len(ut),
         total_unmatched_transcribed |-> Len(uc),
         match_rate |-> Rate(Len(m), total_entities),
         unmatched_truth_rate |-> Rate(Len(ut), total_entities),
         unmatched_transcribed_rate |-> Rate(Len(uc), total_entities),
         average_match_score |-> Rate(SumSeq(match_scores), Len(m)),
         pner |-> calculate_pner(truth_proper_nouns,
                                 transcribed_proper_nouns),
         pnwer |-> calculate_pnwer(truth_proper_nouns,
                                   transcribed_proper_nouns)]

----------------------------------------------------------------------------
(* extract_named_entities (the loop over the response) and                 *)
(* organize_entities_by_position.                                          *)

\* the transcript "Smith met with us yesterday and then we spoke at length
\* with Schmidt": re.findall(r'\S+', text) and where each word starts
Words == <<"Smith", "met", "with", "us", "yesterday", "and", "then", "we",
           "spoke", "at", "length", "with", "Schmidt">>
WordStart == <<0, 6, 10, 15, 18, 28, 32, 37, 40, 46, 49, 56, 61>>
TextLength == 68
None == -1

\* int((start_pos / text_length) * 100); on the offsets of the model the
\* float product truncates to the exact quotient
NormalizedPos(start_pos) == (start_pos * 100) \div TextLength

\* len(re.findall(r'\S+', text[:start_pos]))
EntityStartWord(start_pos) ==
    Cardinality({k \in 1..Len(Words) : WordStart[k] < start_pos})

\* ' '.join(words[start_word:end_word])
Context(start_pos) ==
    LET entity_start_word == EntityStartWord(start_pos)
        start_word == Max(0, entity_start_word - 10)
        end_word == Min(Len(Words), entity_start_word + 10)
    IN  SubSeq(Words, start_word + 1, end_word)

KeyPlace(dict, key) ==
    IF \E k \in 1..Len(dict) : dict[k].key = key
    THEN CHOOSE k \in 1..Len(dict) : dict[k].key = key
    ELSE 0

\* `if not entity_key or not entity_type`
MissingKeyOrType(entity) ==
    entity.processed_text = "" \/ entity.best_label = ""

\* mutant of HasPosition: the start offset alone is looked at
HasStart(entity) == entity.stt_idx # None
\* `if start_pos is not None and end_pos is not None`
HasPosition(entity) == entity.stt_idx # None /\ entity.end_idx # None

\* the body of the loop over data[0]['entities'], for one entity; the
\* dict is the sequence of its entries in insertion order
ExtractBody(dict, entity) ==
    IF MissingKeyOrType(entity) THEN dict
    ELSE LET with_key ==
                 IF KeyPlace(dict, entity.processed_text) = 0
                 THEN Append(dict, [key |-> entity.processed_text,
                                    text |-> entity.text,
                                    type |-> entity.best_label,
                                    positions |-> <<>>,
                                    sentences |-> <<>>])
                 ELSE dict
             at == KeyPlace(with_key, entity.processed_text)
         IN  IF HasPosition(entity)
             THEN [with_key EXCEPT
                      ![at].positions =
                          Append(@, NormalizedPos(entity.stt_idx)),
                      ![at].sentences = Append(@, Context(entity.stt_idx))]
             ELSE with_key

\* whether the body logs a warning for the entity
Warns(entity) == MissingKeyOrType(entity) \/ ~HasPosition(entity)

RECURSIVE ExtractAll(_, _)
ExtractAll(dict, entities) ==
    IF entities = <<>> THEN dict
    ELSE ExtractAll(ExtractBody(dict, Head(entities)), Tail(entities))

\* the occurrences of one entry: zip(positions, sentences)
EntryOccurrences(entry) ==
    [k \in 1..Min(Len(entry.positions), Len(entry.sentences)) |->
        [text |-> entry.text, position |-> entry.positions[k],
         entity_type |-> entry.type, entity_key |-> entry.key,
         sentence |-> entry.sentences[k]]]

RECURSIVE Flatten(_)
Flatten(dict) ==
    IF dict = <<>> THEN <<>>
    ELSE EntryOccurrences(Head(dict)) \o Flatten(Tail(dict))

\* sorted(occurrences, key=lambda x: x.position): stable
InsertSorted(sorted, occ) ==
    LET k == Cardinality({j \in 1..Len(sorted) :
                              sorted[j].position <= occ.position})
    IN  SubSeq(sorted, 1, k) \o <<occ>> \o SubSeq(sorted, k + 1, Len(sorted))

RECURSIVE SortByPosition(_, _)
SortByPosition(sorted, rest) ==
    IF rest = <<>> THEN sorted
    ELSE SortByPosition(InsertSorted(sorted, Head(rest)), Tail(rest))

organize_entities_by_position(dict) == SortByPosition(<<>>, Flatten(dict))

----------------------------------------------------------------------------
(* The inputs of the model.                                                *)

\* the context window is the one of the place the mention is at
SentenceAt(p) == IF p = 10 THEN SentenceA ELSE SentenceB

Occurrence(t, p, e) ==
    [text |-> t, position |-> p, entity_type |-> e,
     entity_key |-> Lower(t), sentence |-> SentenceAt(p)]

RefOcc == {Occurrence(t, p, e) :
               t \in {"Smith", "Schmidt"}, p \in {10, 22}, e \in Types}
CandOcc == {Occurrence(t, 10, e) : t \in {"SMITH", "Schmidt"}, e \in Types}
Tolerances == {10, 12}

\* one pair under an arbitrary fuzz.ratio
SimValues == {10 * k : k \in 0..10}
SimRefOcc == {Occurrence(t, p, "NAME") :
                  t \in {"Smith", "Schmidt"}, p \in {10, 15, 20, 21, 22, 23}}
SimTolerances == {10, 11, 12}

\* the entities a response may hold: any field may be missing ("" is
\* what entity.get(field, '') gives for a missing one, None a missing
\* offset)
Locations == {<<None, None>>, <<0, None>>, <<0, 5>>, <<61, 68>>}
Entities ==
    {[processed_text |-> k, best_label |-> l, text |-> t,
      stt_idx |-> loc[1], end_idx |-> loc[2]] :
        k \in {"", "NAME_1", "NAME_2"}, l \in {"", "NAME"},
        t \in {"", "Smith"}, loc \in Locations}

NoStats == [total_entities |-> -1]
Indices(list) == [k \in 1..Len(list) |-> k]

----------------------------------------------------------------------------
(* The state machine.                                                      *)

MatcherIdle ==
    /\ ground_truth = <<>> /\ transcribed = <<>>
    /\ position_tolerance = 10 /\ ratio = FuzzRatio
    /\ matches = <<>> /\ unmatched_truth = <<>>
    /\ unmatched_transcribed = <<>> /\ pending = <<>> /\ i = 1
    /\ stats = NoStats
MetricsIdle == truth_entities = <<>> /\ transcribed_entities = <<>>
ExtractIdle ==
    /\ data = [has_entities |-> FALSE, entities |-> <<>>]
    /\ entity_dict = <<>> /\ warnings = <<>> /\ occurrences = <<>>

\* match_entities entered (lines 30-32 done), about to run the first pass
MatcherStart ==
    /\ pc = "pass1"
    /\ matches = <<>>
    /\ unmatched_truth = Indices(ground_truth)
    /\ unmatched_transcribed = Indices(transcribed)
    /\ pending = Indices(transcribed)
    /\ i = 1
    /\ stats = NoStats
    /\ MetricsIdle /\ ExtractIdle

\* process_and_analyze.main on two timelines
InitMain ==
    /\ ground_truth \in SeqsUpTo(RefOcc, MaxRef)
    /\ transcribed \in SeqsUpTo(CandOcc, MaxCand)
    /\ position_tolerance \in Tolerances
    /\ ratio = FuzzRatio
    /\ MatcherStart

\* match_entities on one pair, under any fuzz.ratio
InitPair ==
    /\ ground_truth \in {<<o>> : o \in SimRefOcc}
    /\ transcribed = <<Occurrence("SMITH", 10, "NAME")>>
    /\ position_tolerance \in SimTolerances
    /\ ratio \in {AnyRatio(s, t, c) : s, t, c \in SimValues}
    /\ MatcherStart

\* calculate_pner / calculate_pnwer called on two lists of texts
InitMetrics ==
    /\ pc = "metrics"
    /\ truth_entities \in SeqsUpTo(Texts, MaxNouns)
    /\ transcribed_entities \in SeqsUpTo(Texts, MaxNouns)
    /\ MatcherIdle /\ ExtractIdle

\* get_entities.process_transcript on a service response
InitExtract ==
    /\ pc = "extract"
    /\ data \in [has_entities : {FALSE}, entities : {<<>>}]
                 \cup [has_entities : {TRUE},
                       entities : SeqsUpTo(Entities, MaxEntities)]
    /\ entity_dict = <<>> /\ warnings = <<>> /\ occurrences = <<>>
    /\ MatcherIdle /\ MetricsIdle

SetState(st) ==
    /\ matches' = st.matches
    /\ unmatched_truth' = st.unmatched_truth
    /\ unmatched_transcribed' = st.unmatched_transcribed

CurrentState == MatchState(matches, unmatched_truth, unmatched_transcribed)

Pass1Step ==
    /\ pc = "pass1" /\ i <= Len(pending)
    /\ SetState(Pass1Body(ground_truth, transcribed, position_tolerance,
                          CurrentState, pending[i]))
    /\ i' = i + 1
    /\ UNCHANGED <<pc, ground_truth, transcribed, position_tolerance, ratio,
                   pending, stats, metricVars, extractVars>>

Pass1Done ==
    /\ pc = "pass1" /\ i > Len(pending)
    /\ pc' = "pass2"
    /\ pending' = Snapshot(unmatched_transcribed)
    /\ i' = 1
    /\ UNCHANGED <<ground_truth, transcribed, position_tolerance, ratio,
                   matches, unmatched_truth, unmatched_transcribed, stats,
                   metricVars, extractVars>>

Pass2Step ==
    /\ pc = "pass2" /\ i <= Len(pending)
    /\ SetState(BestBody(2, ground_truth, transcribed, position_tolerance,
                         CurrentState, pending[i]))
    /\ i' = i + 1
    /\ UNCHANGED <<pc, ground_truth, transcribed, position_tolerance, ratio,
                   pending, stats, metricVars, extractVars>>

Pass2Done ==
    /\ pc = "pass2" /\ i > Len(pending)
    /\ pc' = "pass3"
    /\ pending' = Snapshot(unmatched_transcribed)
    /\ i' = 1
    /\ UNCHANGED <<ground_truth, transcribed, position_tolerance, ratio,
                   matches, unmatched_truth, unmatched_transcribed, stats,
                   metricVars, extractVars>>

Pass3Step ==
    /\ pc = "pass3" /\ i <= Len(pending)
    /\ SetState(BestBody(3, ground_truth, transcribed, position_tolerance,
                         CurrentState, pending[i]))
    /\ i' = i + 1
    /\ UNCHANGED <<pc, ground_truth, transcribed, position_tolerance, ratio,
                   pending, stats, metricVars, extractVars>>

\* return matches, unmatched_truth, unmatched_transcribed
Pass3Done ==
    /\ pc = "pass3" /\ i > Len(pending)
    /\ pc' = "statistics"
    /\ UNCHANGED <<ground_truth, transcribed, position_tolerance, ratio,
                   matches, unmatched_truth, unmatched_transcribed, pending,
                   i, stats, metricVars, extractVars>>

GenerateStatistics ==
    /\ pc = "statistics"
    /\ stats' = generate_statistics(ground_truth, transcribed, matches,
                                    unmatched_truth, unmatched_transcribed)
    /\ pc' = "done"
    /\ UNCHANGED <<ground_truth, transcribed, position_tolerance, ratio,
                   matches, unmatched_truth, unmatched_transcribed, pending,
                   i, metricVars, extractVars>>

CalculatePner ==
    /\ pc = "metrics"
    /\ stats' = [pner |-> calculate_pner(truth_entities,
                                         transcribed_entities)]
    /\ pc' = "pner_returned"
    /\ UNCHANGED <<ground_truth, transcribed, position_tolerance, ratio,
                   matches, unmatched_truth, unmatched_transcribed, pending,
                   i, metricVars, extractVars>>

CalculatePnwer ==
    /\ pc = "metrics"
    /\ stats' = [pnwer |-> calculate_pnwer(truth_entities,
                                           transcribed_entities)]
    /\ pc' = "pnwer_returned"
    /\ UNCHANGED <<ground_truth, transcribed, position_tolerance, ratio,
                   matches, unmatched_truth, unmatched_transcribed, pending,
                   i, metricVars, extractVars>>

\* one entity of the response processed
ExtractStep ==
    /\ pc = "extract" /\ data.has_entities /\ i <= Len(data.entities)
    /\ entity_dict' = ExtractBody(entity_dict, data.entities[i])
    /\ warnings' = IF Warns(data.entities[i]) THEN Append(warnings, i)
                   ELSE warnings
    /\ i' = i + 1
    /\ UNCHANGED <<pc, data, occurrences, ground_truth, transcribed,
                   position_tolerance, ratio, matches, unmatched_truth,
                   unmatched_transcribed, pending, stats, metricVars>>

\* return entity_dict (saved as entities.json)
ExtractDone ==
    /\ pc = "extract"
    /\ ~data.has_entities \/ i > Len(data.entities)
    /\ pc' = "organize"
    /\ UNCHANGED <<matcherVars, metricVars, extractVars>>

\* the timeline (saved as timeline.json)
Organize ==
    /\ pc = "organize"
    /\ occurrences' = organize_entities_by_position(entity_dict)
    /\ pc' = "saved"
    /\ UNCHANGED <<matcherVars, metricVars, data, entity_dict, warnings>>

Init == InitMain \/ InitPair \/ InitMetrics \/ InitExtract

Next ==
    \/ Pass1Step \/ Pass1Done
    \/ Pass2Step \/ Pass2Done
    \/ Pass3Step \/ Pass3Done
    \/ GenerateStatistics
    \/ CalculatePner \/ CalculatePnwer
    \/ ExtractStep \/ ExtractDone \/ Organize

Spec == Init /\ [][Next]_vars

----------------------------------------------------------------------------
(* Vocabulary of the properties.                                           *)

InMatcher == pc \in {"pass1", "pass2", "pass3", "statistics", "done"}
Looping(p) == pc = p /\ i <= Len(pending)
Without(pool, x) == SelectSeq(pool, LAMBDA y : y # x)
Count(s, x) == Cardinality({k \in 1..Len(s) : s[k] = x})
TruthSide == [k \in 1..Len(matches) |-> matches[k].truth]
TranscribedSide == [k \in 1..Len(matches) |-> matches[k].transcribed]
Cand(c) == transcribed[c]
Ref(r) == ground_truth[r]
Apart(c, r) == Abs(Cand(c).position - Ref(r).position)
SameType(c, r) == Cand(c).entity_type = Ref(r).entity_type
Matched == Len(matches') = Len(matches) + 1
NewMatch == matches'[Len(matches')]
Untouched == UNCHANGED <<matches, unmatched_truth, unmatched_transcribed>>

\* the places of the pool the candidate c may take in the pass, and the
\* first of the best of them
Earliest(S) == CHOOSE k \in S : \A j \in S : k <= j
BestPlace(S, score(_)) ==
    Earliest({k \in S : \A j \in S : score(k) >= score(j)})

----------------------------------------------------------------------------
(* C1: at every point of match_entities each reference is either on the    *)
(* truth side of exactly one Match or once in unmatched_truth, never both, *)
(* and each candidate likewise; so the Matches and a pool add up to the    *)
(* input list.  Equal (duplicate) dicts in a list are told apart.          *)
C1_Partition ==
    InMatcher =>
        /\ \A r \in 1..Len(ground_truth) :
               Count(TruthSide, r) + Count(unmatched_truth, r) = 1
        /\ \A c \in 1..Len(transcribed) :
               Count(TranscribedSide, c) + Count(unmatched_transcribed, c) = 1
        /\ Len(matches) + Len(unmatched_truth) = Len(ground_truth)
        /\ Len(matches) + Len(unmatched_transcribed) = Len(transcribed)

\* two equal references, one matched and the other left over
C1_Witness ==
    /\ pc = "done" /\ Len(ground_truth) = 2
    /\ ground_truth[1] = ground_truth[2]
    /\ Len(matches) = 1 /\ matches[1].truth = 1 /\ unmatched_truth = <<2>>

(* C2: a first pass step takes the candidates in list order and matches    *)
(* the candidate with the earliest reference of the pool that has the same *)
(* lower-cased text, lies within position_tolerance and whose sentence     *)
(* similarity exceeds 80; the Match has score 100 and both leave their     *)
(* pools; with no such reference nothing changes.                          *)
C2_Pass1FirstFit ==
    [][Looping("pass1") =>
          LET c == pending[i]
              ok == {k \in 1..Len(unmatched_truth) :
                        LET r == unmatched_truth[k]
                        IN  /\ Lower(Cand(c).text) = Lower(Ref(r).text)
                            /\ Apart(c, r) <= position_tolerance
                            /\ ratio[<<Cand(c).sentence, Ref(r).sentence>>]
                                   > 80}
          IN  /\ c = i
              /\ IF ok = {} THEN Untouched
                 ELSE /\ matches' =
                             Append(matches,
                                    [truth |-> unmatched_truth[Earliest(ok)],
                                     transcribed |-> c, score |-> 10000])
                      /\ unmatched_truth' =
                             RemoveAt(unmatched_truth, Earliest(ok))
                      /\ unmatched_transcribed' =
                             Without(unmatched_transcribed, c)]_vars

\* the second of two references was the first fit, and was matched
C2_Witness ==
    /\ pc = "pass2" /\ Len(ground_truth) = 2
    /\ Len(matches) = 1 /\ matches[1].truth = 2 /\ matches[1].score = 10000
    /\ Lower(Ref(1).text) = Lower(Cand(matches[1].transcribed).text)

C3_Score(c, r) ==
    50 * sentence_similarity(Cand(c), Ref(r))
        + 30 * (100 - 10 * Apart(c, r))
        + 15 * text_similarity(Cand(c), Ref(r))
        + 5 * phonetic_similarity(Cand(c), Ref(r))

(* C3: the second pass takes the candidates left by the first pass in list *)
(* order; a step picks, among the references of the pool with the          *)
(* candidate's entity_type and within position_tolerance, the one with the *)
(* highest 0.5*sentence + 0.3*(100 - 10*distance) + 0.15*text +            *)
(* 0.05*phonetic, the earliest on ties, and matches it with that score if  *)
(* and only if the score exceeds 50; one reference at most leaves the      *)
(* pool.                                                                   *)
C3_Pass2BestFit ==
    [][/\ pc = "pass1" /\ pc' = "pass2" => pending' = unmatched_transcribed
       /\ Looping("pass2") =>
             LET c == pending[i]
                 ok == {k \in 1..Len(unmatched_truth) :
                           /\ SameType(c, unmatched_truth[k])
                           /\ Apart(c, unmatched_truth[k])
                                  <= position_tolerance}
                 score(k) == C3_Score(c, unmatched_truth[k])
             IN  IF ok # {} /\ score(BestPlace(ok, score)) > 5000
                 THEN /\ matches' =
                             Append(matches,
                                    [truth |->
                                         unmatched_truth[BestPlace(ok, score)],
                                     transcribed |-> c,
                                     score |-> score(BestPlace(ok, score))])
                      /\ unmatched_truth' =
                             RemoveAt(unmatched_truth, BestPlace(ok, score))
                      /\ unmatched_transcribed' =
                             Without(unmatched_transcribed, c)
                 ELSE Untouched]_vars

\* the first of two candidates took the only reference in the second
\* pass, passing over an earlier reference that scored lower
C3_Witness ==
    /\ pc = "pass3" /\ Len(transcribed) = 2 /\ Len(ground_truth) = 2
    /\ Len(matches) = 1
    /\ matches[1] = [truth |-> 2, transcribed |-> 1, score |-> 9340]
    /\ SameType(1, 1) /\ SameType(2, 2)
    /\ Apart(1, 1) <= position_tolerance
    /\ unmatched_transcribed = <<2>>

C4_Score(c, r) ==
    60 * sentence_similarity(Cand(c), Ref(r))
        + 30 * text_similarity(Cand(c), Ref(r))
        + 10 * phonetic_similarity(Cand(c), Ref(r))

(* C4: a pair further apart than position_tolerance is matched by no step  *)
(* of the first or second pass; a third pass step matches it only if the   *)
(* two have the same entity_type, the reference scores highest among the   *)
(* same-type references of the pool under 0.6*sentence + 0.3*text +        *)
(* 0.1*phonetic, and the score exceeds 80.                                 *)
C4_FarOnlyPass3 ==
    [][(InMatcher /\ Matched
            /\ Apart(NewMatch.transcribed, NewMatch.truth)
                   > position_tolerance) =>
          /\ pc = "pass3"
          /\ NewMatch.transcribed = pending[i]
          /\ NewMatch.truth \in Range(unmatched_truth)
          /\ SameType(NewMatch.transcribed, NewMatch.truth)
          /\ NewMatch.score = C4_Score(NewMatch.transcribed, NewMatch.truth)
          /\ NewMatch.score > 8000
          /\ \A r \in Range(unmatched_truth) :
                 SameType(NewMatch.transcribed, r) =>
                     C4_Score(NewMatch.transcribed, r) <= NewMatch.score]_vars

\* a Match of a pair further apart than the tolerance
C4_Witness ==
    /\ pc = "done" /\ Len(matches) >= 1 /\ Len(ground_truth) = 2
    /\ \E k \in 1..Len(matches) :
           Apart(matches[k].transcribed, matches[k].truth)
               > position_tolerance

(* C5 as stated: every Match a third pass step makes is of a pair further  *)
(* apart than position_tolerance, whatever the tolerance and the           *)
(* similarity values.                                                      *)
C5_Original ==
    [][(pc = "pass3" /\ Matched) =>
          Apart(NewMatch.transcribed, NewMatch.truth)
              > position_tolerance]_vars

(* C5 amended: with position_tolerance at most 11 (the default is 10),     *)
(* every Match a third pass step makes is of a pair further apart than     *)
(* position_tolerance, whatever the similarity values in 0..100.           *)
C5_FarWhenToleranceSmall ==
    [][(pc = "pass3" /\ Matched /\ position_tolerance <= 11) =>
          Apart(NewMatch.transcribed, NewMatch.truth)
              > position_tolerance]_vars

\* the third pass matched a pair 12 apart under a tolerance of 11
C5_Witness ==
    /\ pc = "done" /\ position_tolerance = 11 /\ Len(matches) = 1
    /\ Apart(1, 1) = 12 /\ matches[1].score < 10000

PassRank(p) ==
    CASE p = "pass1" -> 1 [] p = "pass2" -> 2 [] p = "pass3" -> 3
      [] p = "statistics" -> 4 [] OTHER -> 5
Shrinks(old, new) ==
    new = old \/ \E k \in 1..Len(old) : new = RemoveAt(old, k)

(* C6: the passes run in the order 1, 2, 3; no step removes, re-pairs or   *)
(* re-scores a Match (the list only grows at its end), no step puts an     *)
(* occurrence back into a pool (a pool only loses elements), and the       *)
(* candidate a step examines is still unmatched: the second and the third  *)
(* pass go through the candidates unmatched when they start.               *)
C6_NoRevisit ==
    [][InMatcher =>
          /\ PassRank(pc') \in {PassRank(pc), PassRank(pc) + 1}
          /\ Len(matches') >= Len(matches)
          /\ SubSeq(matches', 1, Len(matches)) = matches
          /\ Shrinks(unmatched_truth, unmatched_truth')
          /\ Shrinks(unmatched_transcribed, unmatched_transcribed')
          /\ pc' \in {"pass2", "pass3"} /\ pc' # pc =>
                 pending' = unmatched_transcribed
          /\ pc \in {"pass1", "pass2", "pass3"} /\ i <= Len(pending) =>
                 pending[i] \in Range(unmatched_transcribed)]_vars

\* a Match of the first pass still first after the second pass added one
C6_Witness ==
    /\ pc = "done" /\ Len(matches) = 2
    /\ matches[1].score = 10000 /\ matches[2].score = 9340

OfType(list, T) ==
    SelectSeq(Indices(list), LAMBDA k : list[k].entity_type = T)
Pick(list, idx) == [k \in 1..Len(idx) |-> list[idx[k]]]
TypeRun(T) ==
    MatchEntities(Pick(ground_truth, OfType(ground_truth, T)),
                  Pick(transcribed, OfType(transcribed, T)),
                  position_tolerance)
Partitioned ==
    [matches |->
         UNION {{<<OfType(ground_truth, T)[m.truth],
                   OfType(transcribed, T)[m.transcribed], m.score>> :
                     m \in Range(TypeRun(T).matches)} : T \in Types},
     unmatched_truth |->
         UNION {{OfType(ground_truth, T)[r] :
                     r \in Range(TypeRun(T).unmatched_truth)} : T \in Types},
     unmatched_transcribed |->
         UNION {{OfType(transcribed, T)[c] :
                     c \in Range(TypeRun(T).unmatched_transcribed)} :
                    T \in Types}]
Whole ==
    [matches |-> {<<m.truth, m.transcribed, m.score>> : m \in Range(matches)},
     unmatched_truth |-> Range(unmatched_truth),
     unmatched_transcribed |-> Range(unmatched_transcribed)]
CrossTypeMatch ==
    \E m \in Range(matches) : ~SameType(m.transcribed, m.truth)

(* C7 as stated: matching each entity_type's candidates against that      *)
(* entity_type's references alone, and putting the outcomes together,      *)
(* gives the Matches (pairs and scores) and the two unmatched sets of      *)
(* match_entities on the whole lists, for every pair of lists.             *)
C7_Original == pc = "done" => Partitioned = Whole

(* C7 amended: partitioning by entity_type gives the outcome of            *)
(* match_entities on the whole lists whenever that outcome pairs no two    *)
(* occurrences of different entity_type (the first pass does not compare   *)
(* entity_type, so it can pair them; no partitioned run can).              *)
C7_PartitionWhenNoCrossType ==
    (pc = "done" /\ ~CrossTypeMatch) => Partitioned = Whole

\* both entity types on both sides, every occurrence matched in its type
C7_Witness ==
    /\ pc = "done" /\ Len(matches) = 2 /\ ~CrossTypeMatch
    /\ {o.entity_type : o \in Range(ground_truth)} = Types
    /\ {o.entity_type : o \in Range(transcribed)} = Types

(* C8: generate_statistics reports total_entities as the sum of the three  *)
(* counts and each rate as its count over total_entities, so the rates add *)
(* up to 1 when total_entities > 0 and are all 0 when it is 0; with no     *)
(* reference and some candidates, every candidate is left in               *)
(* unmatched_transcribed, match_rate is 0 and total_entities is the number *)
(* of candidates.                                                          *)
C8_Statistics ==
    pc = "done" =>
        LET n == Len(matches) + Len(unmatched_truth)
                     + Len(unmatched_transcribed)
        IN  /\ stats.total_entities = n
            /\ n > 0 =>
                   /\ stats.match_rate = <<Len(matches), n>>
                   /\ stats.unmatched_truth_rate = <<Len(unmatched_truth), n>>
                   /\ stats.unmatched_transcribed_rate =
                          <<Len(unmatched_transcribed), n>>
                   /\ stats.match_rate[1] + stats.unmatched_truth_rate[1]
                          + stats.unmatched_transcribed_rate[1] = n
            /\ n = 0 =>
                   /\ stats.match_rate = Zero
                   /\ stats.unmatched_truth_rate = Zero
                   /\ stats.unmatched_transcribed_rate = Zero
            /\ (ground_truth = <<>> /\ transcribed # <<>>) =>
                   /\ unmatched_transcribed = Indices(transcribed)
                   /\ stats.match_rate[1] = 0
                   /\ stats.total_entities = Len(transcribed)

\* one Match, one reference and one candidate left over
C8_Witness ==
    /\ pc = "done" /\ Len(matches) = 1
    /\ Len(unmatched_truth) = 1 /\ Len(unmatched_transcribed) = 1
    /\ stats.match_rate = <<1, 3>>

(* C9: the PNWER of generate_statistics is the number of Matches whose two *)
(* texts differ (case counts) over the number of Matches, so within        *)
(* [0, 1]; PNWER and PNER are 0 with no Match; calculate_pnwer called on   *)
(* an empty reference list returns 0 whatever the candidate list.          *)
C9_Pnwer ==
    /\ pc = "done" =>
           LET differ == {k \in 1..Len(matches) :
                             Ref(matches[k].truth).text
                                 # Cand(matches[k].transcribed).text}
           IN  /\ matches # <<>> =>
                      /\ stats.pnwer = <<Cardinality(differ), Len(matches)>>
                      /\ stats.pnwer[1] <= stats.pnwer[2]
               /\ matches = <<>> =>
                      stats.pnwer = Zero /\ stats.pner = Zero
    /\ (pc = "pnwer_returned" /\ truth_entities = <<>>) =>
           stats.pnwer = Zero

\* two Matches, one of them of texts that differ by case alone
C9_Witness ==
    /\ pc = "done" /\ Len(matches) = 2 /\ stats.pnwer = <<1, 2>>
    /\ \E k \in 1..2 :
           /\ matches[k].score = 10000
           /\ Ref(matches[k].truth).text # Cand(matches[k].transcribed).text

HasKeyAndLabel(e) == e.processed_text # "" /\ e.best_label # ""
HasOffsets(e) == e.stt_idx # None /\ e.end_idx # None
Complete(e) == HasKeyAndLabel(e) /\ HasOffsets(e) /\ e.text # ""
TimelineOf(entities) ==
    organize_entities_by_position(ExtractAll(<<>>, entities))
InExtractor == pc \in {"extract", "organize", "saved"}
ParallelArrays ==
    \A k \in 1..Len(entity_dict) :
        Len(entity_dict[k].positions) = Len(entity_dict[k].sentences)

(* C10 as stated: an entity of the response missing any of its fields      *)
(* (processed form, label, start or end offset, surface text) gets a       *)
(* warning and no occurrence, and the timeline is the one of the complete  *)
(* entities alone; the positions and sentences of an entry have the same   *)
(* length.                                                                 *)
C10_Original ==
    InExtractor =>
        /\ ParallelArrays
        /\ pc = "saved" =>
               /\ occurrences = TimelineOf(SelectSeq(data.entities, Complete))
               /\ Range(warnings) = {k \in 1..Len(data.entities) :
                                        ~Complete(data.entities[k])}

Located(e) == HasKeyAndLabel(e) /\ HasOffsets(e)
FirstOfKey(key) ==
    LET first == Earliest({k \in 1..Len(data.entities) :
                              /\ HasKeyAndLabel(data.entities[k])
                              /\ data.entities[k].processed_text = key})
    IN  data.entities[first]

(* C10 amended: an entity missing its processed form or its label gets a   *)
(* warning and changes nothing; an entity missing its start or end offset  *)
(* gets a warning and no occurrence (it still opens the entity-map entry   *)
(* of its key, with its text and label, when it is the first of the key);  *)
(* an entity missing only its surface text gets no warning and is not      *)
(* skipped: its occurrence carries the text of its key's entry, '' when    *)
(* it is the first of the key.  So the timeline has one occurrence for     *)
(* each entity having a processed form, a label and both offsets, at that  *)
(* entity's key and position, and no other; a response without entities    *)
(* gives none; positions and sentences of an entry have the same length.   *)
C10_SkipsByKeyLabelOffsets ==
    InExtractor =>
        /\ ParallelArrays
        /\ pc = "saved" =>
               /\ occurrences =
                      TimelineOf(SelectSeq(data.entities, HasKeyAndLabel))
               /\ Len(occurrences) =
                      Cardinality({k \in 1..Len(data.entities) :
                                      Located(data.entities[k])})
               /\ \A o \in Range(occurrences) :
                      /\ Cardinality({k \in 1..Len(occurrences) :
                                         /\ occurrences[k].entity_key
                                                = o.entity_key
                                         /\ occurrences[k].position
                                                = o.position})
                           = Cardinality(
                                 {k \in 1..Len(data.entities) :
                                     /\ Located(data.entities[k])
                                     /\ data.entities[k].processed_text
                                            = o.entity_key
                                     /\ (data.entities[k].stt_idx * 100)
                                            \div TextLength = o.position})
                      /\ o.text = FirstOfKey(o.entity_key).text
                      /\ o.entity_type = FirstOfKey(o.entity_key).best_label
               /\ Range(warnings) = {k \in 1..Len(data.entities) :
                                        ~Located(data.entities[k])}
               /\ ~data.has_entities => occurrences = <<>>

\* an entity without surface text got its occurrence, with text '', and
\* an entity without end offset got a warning and none
C10_Witness ==
    /\ pc = "saved" /\ Len(data.entities) = 2
    /\ Located(data.entities[1]) /\ data.entities[1].text = ""
    /\ HasKeyAndLabel(data.entities[2]) /\ data.entities[2].stt_idx # None
    /\ data.entities[2].end_idx = None
    /\ Len(occurrences) = 1 /\ occurrences[1].text = ""
    /\ warnings = <<2>>

=============================================================================
